---- MODULE Spec2Model ----
(***************************************************************************)
(* A model of pdf_summarizer: the OCR pipeline of pdf2txt.py, the name and *)
(* career extraction of extract_info.py and the cleanup client of          *)
(* utils/gemini_service.py.                                                *)
(*                                                                         *)
(* A Python str is modelled as a sequence of one-character strings, so     *)
(* that splitting, stripping, searching and the regular expressions are    *)
(* computed character by character as the code computes them.              *)
(***************************************************************************)
EXTENDS Integers, Sequences, FiniteSets, TLC

VARIABLES
    fn,                   \* the function a specification applies to drawn arguments
    arg,                  \* its arguments, a record
    out,                  \* its result (for the pipelines: the files written)
    pc,                   \* where control is
    \* process_names_files
    file_idx,             \* the names files behind the loop of line 237
    names,                \* the names extracted from the current file
    first_names, last_names, political_positions, private_positions,
    name_idx,             \* the index of the loop of line 288
    cleanups,             \* history: the get_gemini_response calls of the run
    \* match_names
    bio_names,
    name_matches,
    bi, ni,               \* the indices of the loops of lines 40 and 42
    bound_at,             \* history: the <<bi, ni>> at which matches[name] was set
    \* process_all_pdfs, process_single_pdf
    pdf_idx,              \* the PDFs behind the loop of line 122
    successful,
    images,               \* the number of page images of the current PDF
    image,                \* the image of the current page
    page_num,             \* the index of the loop of line 82
    page_text,            \* the text of the current page
    all_text, empty_pages,
    tried,                \* history: the ocr_image calls for each page of the PDF
    returned              \* history: how process_single_pdf ended for each PDF

fnVars == <<fn, arg, out, pc>>
namesVars == <<file_idx, names, first_names, last_names, political_positions,
               private_positions, name_idx, cleanups>>
matchVars == <<bio_names, name_matches, bi, ni, bound_at>>
ocrVars == <<pdf_idx, successful, images, image, page_num, page_text, all_text,
             empty_pages, tried, returned>>
vars == <<fnVars, namesVars, matchVars, ocrVars>>

\* the variables of a function or pipeline at rest
NamesIdle ==
    /\ file_idx = 0 /\ names = <<>> /\ first_names = <<>> /\ last_names = <<>>
    /\ political_positions = <<>> /\ private_positions = <<>> /\ name_idx = 0
    /\ cleanups = <<>>

MatchIdle == bio_names = <<>> /\ name_matches = <<>> /\ bi = 0 /\ ni = 0 /\ bound_at = <<>>

OcrIdle ==
    /\ pdf_idx = 0 /\ successful = 0 /\ images = 0 /\ image = <<>> /\ page_num = 0
    /\ page_text = <<>>
    /\ all_text = <<>> /\ empty_pages = 0 /\ tried = <<>> /\ returned = <<>>

-----------------------------------------------------------------------------
(* Characters and the str methods the code uses.                           *)

UpperLetters ==
    {"A","B","C","D","E","F","G","H","I","J","K","L","M",
     "N","O","P","Q","R","S","T","U","V","W","X","Y","Z"}

LowerLetters ==
    {"a","b","c","d","e","f","g","h","i","j","k","l","m",
     "n","o","p","q","r","s","t","u","v","w","x","y","z"}

Digits == {"0","1","2","3","4","5","6","7","8","9"}

\* \s of re and the separators of str.split() and str.strip()
WhiteSpace == {" ", "\t", "\n", "\r"}

\* \w of re
WordChars == UpperLetters \cup LowerLetters \cup Digits \cup {"_"}

UpperOf ==
    [c \in LowerLetters |->
        CASE c = "a" -> "A" [] c = "b" -> "B" [] c = "c" -> "C" [] c = "d" -> "D"
          [] c = "e" -> "E" [] c = "f" -> "F" [] c = "g" -> "G" [] c = "h" -> "H"
          [] c = "i" -> "I" [] c = "j" -> "J" [] c = "k" -> "K" [] c = "l" -> "L"
          [] c = "m" -> "M" [] c = "n" -> "N" [] c = "o" -> "O" [] c = "p" -> "P"
          [] c = "q" -> "Q" [] c = "r" -> "R" [] c = "s" -> "S" [] c = "t" -> "T"
          [] c = "u" -> "U" [] c = "v" -> "V" [] c = "w" -> "W" [] c = "x" -> "X"
          [] c = "y" -> "Y" [] c = "z" -> "Z"]

\* str.upper()
str_upper(s) == [k \in 1..Len(s) |-> IF s[k] \in LowerLetters THEN UpperOf[s[k]] ELSE s[k]]

\* the least element of a non-empty set of integers
MinOf(S) == CHOOSE x \in S : \A y \in S : x <= y

\* the element of a set of one element: Only({e(v) : v \in {d}}) is e with v
\* standing for the value of d
Only(S) == CHOOSE x \in S : TRUE

\* s[lo:hi] with Python's indices: 0-based, negative ones counted from the end
PyIndex(s, k) ==
    IF k < 0 THEN (IF Len(s) + k < 0 THEN 0 ELSE Len(s) + k)
    ELSE IF k > Len(s) THEN Len(s) ELSE k

str_slice(s, lo, hi) == SubSeq(s, PyIndex(s, lo) + 1, PyIndex(s, hi))

str_from(s, lo) == SubSeq(s, PyIndex(s, lo) + 1, Len(s))

str_startswith(s, prefix) ==
    Len(prefix) <= Len(s) /\ SubSeq(s, 1, Len(prefix)) = prefix

\* s.startswith(lit) read at the 0-based offset pos
LitAt(s, pos, lit) ==
    pos + Len(lit) <= Len(s) /\ SubSeq(s, pos + 1, pos + Len(lit)) = lit

\* str.find(sub): the lowest 0-based index of sub in s, or -1
str_find(s, sub) ==
    LET at == {p \in 0..Len(s) : LitAt(s, p, sub)}
    IN  IF at = {} THEN -1 ELSE MinOf(at)

\* the 0-based offset of the first character at or after pos that is not in
\* chars, the length of s when there is none (pos itself beyond the end)
SkipChars(s, pos, chars) ==
    LET stops == {q \in pos..(Len(s) - 1) : s[q + 1] \notin chars}
    IN  IF pos >= Len(s) THEN pos
        ELSE IF stops = {} THEN Len(s) ELSE MinOf(stops)

\* the 0-based offset of the first character at or after pos that is in chars
SkipUntil(s, pos, chars) ==
    LET stops == {q \in pos..(Len(s) - 1) : s[q + 1] \in chars}
    IN  IF pos >= Len(s) THEN pos
        ELSE IF stops = {} THEN Len(s) ELSE MinOf(stops)

\* str.lstrip(chars)
str_lstrip_chars(s, chars) == SubSeq(s, SkipChars(s, 0, chars) + 1, Len(s))

\* str.rstrip(chars)
str_rstrip_chars(s, chars) ==
    LET kept == {k \in 1..Len(s) : s[k] \notin chars}
    IN  IF kept = {} THEN <<>>
        ELSE SubSeq(s, 1, CHOOSE k \in kept : \A m \in kept : m <= k)

\* str.strip()
str_strip(s) == str_rstrip_chars(str_lstrip_chars(s, WhiteSpace), WhiteSpace)

\* str.split(): the maximal runs of non-whitespace characters, in order
RECURSIVE SplitFrom(_, _)
SplitFrom(s, pos) ==
    LET b == SkipChars(s, pos, WhiteSpace)
        e == SkipUntil(s, b, WhiteSpace)
    IN  IF b >= Len(s) THEN <<>>
        ELSE <<SubSeq(s, b + 1, e)>> \o SplitFrom(s, e)

str_split(s) == SplitFrom(s, 0)

\* str.split(sep) for a one-character sep: the pieces between, empty ones kept
RECURSIVE SplitOnFrom(_, _, _)
SplitOnFrom(s, pos, sep) ==
    LET e == SkipUntil(s, pos, {sep})
    IN  IF e >= Len(s) THEN <<SubSeq(s, pos + 1, Len(s))>>
        ELSE <<SubSeq(s, pos + 1, e)>> \o SplitOnFrom(s, e + 1, sep)

str_split_on(s, sep) == SplitOnFrom(s, 0, sep)

\* str.split('\n')
str_split_lines(s) == str_split_on(s, "\n")

\* sep.join(parts)
RECURSIVE str_join(_, _)
str_join(sep, parts) ==
    IF parts = <<>> THEN <<>>
    ELSE IF Len(parts) = 1 THEN parts[1]
    ELSE parts[1] \o sep \o str_join(sep, Tail(parts))

\* c * n
Repeat(c, n) == [k \in 1..n |-> c]

-----------------------------------------------------------------------------
(* remove_page_markers                                                     *)

\* re.compile(r'^===\s*Page\s*\d+\s*===$').match(line): every repetition is
\* followed by a character outside its class, so the greedy scan is the match
page_pattern(line) ==
    LET p1 == 3
        p2 == SkipChars(line, p1, WhiteSpace)
        p3 == p2 + 4
        p4 == SkipChars(line, p3, WhiteSpace)
        p5 == SkipChars(line, p4, Digits)
        p6 == SkipChars(line, p5, WhiteSpace)
    IN  /\ LitAt(line, 0, <<"=","=","=">>)
        /\ LitAt(line, p2, <<"P","a","g","e">>)
        /\ p5 > p4
        /\ LitAt(line, p6, <<"=","=","=">>)
        /\ p6 + 3 = Len(line)

\* the 0-based indices of the lines that are page markers
marker_indices(lines) ==
    {i \in 0..(Len(lines) - 1) : page_pattern(str_strip(lines[i + 1]))}

\* a cleaner that also takes the line two before the marker
lines_to_remove_two_before(lines) ==
    {i \in 0..(Len(lines) - 1) :
        \E n \in marker_indices(lines) : i \in (n - 2)..(n + 2)}

\* for each marker at index n: n-1, n, n+1, n+2, those that exist
lines_to_remove(lines) ==
    LET m == marker_indices(lines)
    IN  {i \in 0..(Len(lines) - 1) :
            \/ i \in m
            \/ (i + 1) \in m
            \/ (i - 1) \in m
            \/ (i - 2) \in m}

RECURSIVE KeepLines(_, _, _)
KeepLines(lines, i, removed) ==
    IF i >= Len(lines) THEN <<>>
    ELSE (IF i \in removed THEN <<>> ELSE <<lines[i + 1]>>)
         \o KeepLines(lines, i + 1, removed)

remove_page_markers(text) ==
    IF text = <<>> THEN text
    ELSE LET lines == str_split_lines(text)
         IN  str_join(<<"\n">>, KeepLines(lines, 0, lines_to_remove(lines)))

-----------------------------------------------------------------------------
(* Applying remove_page_markers to drawn texts.                            *)

\* the rule line of an OCR page block, '=' * 50
RuleWidth == 50

RuleLine == Repeat("=", RuleWidth)

\* f"=== Page {n} ===" as process_single_pdf writes it, for page 2
MarkerLine == <<"=","=","="," ","P","a","g","e"," ","2"," ","=","=","=">>

\* the lines a drawn text is made of: plain text, an empty line, a line with
\* blanks around it, marker lines as page_pattern accepts them, a rule line,
\* and near misses of a marker
MaxShortLines == 3

LineChoices ==
    { <<"a">>, <<"b">>, <<>>, <<" ","c"," ">>,
      MarkerLine,
      <<" ","=","=","=","P","a","g","e","1","0","=","=","="," ">>,
      <<"=","=","="," ","P","a","g","e"," ","=","=","=">>,
      <<"=","="," ","P","a","g","e"," ","2"," ","=","=">>,
      RuleLine }

TextOfLines(ls) == str_join(<<"\n">>, ls)

\* a 7-line block whose lines 3-5 are rule / marker / rule
Block(l1, l2, l6, l7) == <<l1, l2, RuleLine, MarkerLine, RuleLine, l6, l7>>

BlockLines == {Block(l1, l2, l6, l7) : l1, l2, l6, l7 \in LineChoices}

ShortLines == UNION {[1..k -> LineChoices] : k \in 0..MaxShortLines}

MarkerTexts == {TextOfLines(ls) : ls \in BlockLines \cup ShortLines}

InitMarkers ==
    /\ fn = "remove_page_markers"
    /\ arg \in [text : MarkerTexts]
    /\ out = <<>>
    /\ pc = "call"
    /\ NamesIdle /\ MatchIdle /\ OcrIdle

CallRemovePageMarkers ==
    /\ fn = "remove_page_markers"
    /\ pc = "call"
    /\ out' = remove_page_markers(arg.text)
    /\ pc' = "return"
    /\ UNCHANGED <<fn, arg, namesVars, matchVars, ocrVars>>

NextMarkers == CallRemovePageMarkers

SpecMarkers == InitMarkers /\ [][NextMarkers]_vars

\* the drawn text is a 7-line block with rule / marker / rule on lines 3-5
IsBlock(text) ==
    LET ls == str_split_lines(text)
    IN  /\ Len(ls) = 7
        /\ ls[3] = RuleLine /\ ls[4] = MarkerLine /\ ls[5] = RuleLine

\* line 4 is the block's only page marker
OnlyMarkerIsLine4(text) == marker_indices(str_split_lines(text)) = {3}

MarkersDone == fn = "remove_page_markers" /\ pc = "return"

\* C6, as stated: the cleaner drops lines 2 through 6 of such a block and
\* returns lines 1 and 7 verbatim, in order.
C6_DropsTwoThroughSix ==
    (MarkersDone /\ IsBlock(arg.text) /\ OnlyMarkerIsLine4(arg.text)) =>
        LET ls == str_split_lines(arg.text)
        IN  out = TextOfLines(<<ls[1], ls[7]>>)

\* C6, amended: for a 7-line block whose lines 3-5 are rule / marker / rule and
\* whose only page-marker line is line 4, remove_page_markers drops lines 3
\* through 6 (one before the marker, the marker, two after) and returns lines
\* 1, 2 and 7 verbatim, in order.
C6_DropsThreeThroughSix ==
    (MarkersDone /\ IsBlock(arg.text) /\ OnlyMarkerIsLine4(arg.text)) =>
        LET ls == str_split_lines(arg.text)
        IN  out = TextOfLines(<<ls[1], ls[2], ls[7]>>)

\* a block with distinct plain lines 1, 2, 6, 7 has been cleaned
C6_Witness ==
    /\ MarkersDone
    /\ arg.text = TextOfLines(Block(<<"a">>, <<"b">>, <<" ","c"," ">>, <<>>))
    /\ out = TextOfLines(<<(<<"a">>), (<<"b">>), (<<>>)>>)

-----------------------------------------------------------------------------
(* similarity: difflib.SequenceMatcher(None, a.upper(), b.upper()).ratio() *)

\* the length of the common run of a from i and b from j, inside a[:ahi], b[:bhi]
RECURSIVE CommonLen(_, _, _, _, _, _)
CommonLen(a, i, ahi, b, j, bhi) ==
    IF i < ahi /\ j < bhi /\ a[i + 1] = b[j + 1]
    THEN 1 + CommonLen(a, i + 1, ahi, b, j + 1, bhi)
    ELSE 0

\* SequenceMatcher.find_longest_match without junk (autojunk needs 200 elements):
\* a longest block a[i:i+k] = b[j:j+k] in a[alo:ahi], b[blo:bhi]; of the longest,
\* the one starting earliest in a, and of those the one starting earliest in b
find_longest_match(a, alo, ahi, b, blo, bhi) ==
    Only({ IF DOMAIN size = {} THEN [i |-> alo, j |-> blo, size |-> 0]
           ELSE Only({ [i |-> best[1], j |-> best[2], size |-> size[best]] :
                       best \in {c \in DOMAIN size :
                                    \A d \in DOMAIN size :
                                       \/ size[c] > size[d]
                                       \/ /\ size[c] = size[d]
                                          /\ \/ c[1] < d[1]
                                             \/ c[1] = d[1] /\ c[2] <= d[2]} }) :
           size \in {[c \in {c \in (alo..(ahi - 1)) \X (blo..(bhi - 1)) :
                                a[c[1] + 1] = b[c[2] + 1]}
                         |-> CommonLen(a, c[1], ahi, b, c[2], bhi)]} })

\* the sum of the sizes of SequenceMatcher.get_matching_blocks(): the longest
\* match, then the same to its left and to its right
RECURSIVE MatchedSize(_, _, _, _, _, _)
MatchedSize(a, alo, ahi, b, blo, bhi) ==
    Only({ IF m.size = 0 THEN 0
           ELSE LET sides == << <<alo, m.i, blo, m.j>>,
                                <<m.i + m.size, ahi, m.j + m.size, bhi>> >>
                    rest == [k \in 1..2 |->
                                IF sides[k][1] < sides[k][2] /\ sides[k][3] < sides[k][4]
                                THEN MatchedSize(a, sides[k][1], sides[k][2],
                                                 b, sides[k][3], sides[k][4])
                                ELSE 0]
                IN  m.size + rest[1] + rest[2] :
           m \in {find_longest_match(a, alo, ahi, b, blo, bhi)} })

\* similarity(a, b) >= tenths / 10, where ratio() is 2.0 * matches / length and
\* 1.0 for two empty strings; the comparison is exact in integers
SimilarityAtLeast(a, b, tenths) ==
    LET ua == str_upper(a)
        ub == str_upper(b)
        total == Len(ua) + Len(ub)
    IN  IF total = 0 THEN 10 >= tenths
        ELSE 20 * MatchedSize(ua, 0, Len(ua), ub, 0, Len(ub)) >= tenths * total

-----------------------------------------------------------------------------
(* find_fuzzy_phrase_match; None is modelled as the empty string, which the *)
(* callers' "if not match" treats alike                                     *)

\* the two-word branch from index i (0-based) of words = text.upper().split(),
\* actual_words being text.split()
RECURSIVE TwoWordFrom(_, _, _, _, _)
TwoWordFrom(words, actual_words, target_words, tenths, i) ==
    IF i >= Len(words) - 1 THEN <<>>
    ELSE IF /\ \A k \in 1..2 : words[i + k][1] = target_words[k][1]
            /\ \A k \in 1..2 : SimilarityAtLeast(words[i + k], target_words[k], tenths)
            /\ \E j \in 0..(Len(actual_words) - 2) :
                  \A k \in 1..2 : str_upper(actual_words[j + k]) = words[i + k]
         THEN Only({ actual_words[j0 + 1] \o <<" ">> \o actual_words[j0 + 2] :
                     j0 \in {MinOf({j \in 0..(Len(actual_words) - 2) :
                                \A k \in 1..2 :
                                   str_upper(actual_words[j + k]) = words[i + k]})} })
         ELSE TwoWordFrom(words, actual_words, target_words, tenths, i + 1)

\* the single-word branch from index i of text.split()
RECURSIVE OneWordFrom(_, _, _, _)
OneWordFrom(actual_words, target_word, tenths, i) ==
    IF i >= Len(actual_words) THEN <<>>
    ELSE IF SimilarityAtLeast(str_upper(actual_words[i + 1]), target_word, tenths)
         THEN actual_words[i + 1]
         ELSE OneWordFrom(actual_words, target_word, tenths, i + 1)

find_fuzzy_phrase_match(text, target_phrase, tenths) ==
    Only({ IF Len(target_words) = 2
           THEN Only({ TwoWordFrom([k \in 1..Len(actual_words) |->
                                       str_upper(actual_words[k])],
                                   actual_words, target_words, tenths, 0) :
                       actual_words \in {str_split(text)} })
           ELSE IF Len(target_words) = 1
                THEN OneWordFrom(str_split(text), target_words[1], tenths, 0)
                ELSE <<>> :
           target_words \in {str_split(str_upper(target_phrase))} })

-----------------------------------------------------------------------------
(* extract_bio_info                                                        *)

\* \b of re at the 0-based offset p
WordBoundary(s, p) ==
    (p > 0 /\ s[p] \in WordChars) # (p < Len(s) /\ s[p + 1] \in WordChars)

\* the lookahead (?=\n[A-Z]+,|\Z) at offset e
SectionEndsAt(s, e) ==
    \/ e = Len(s)
    \/ /\ LitAt(s, e, <<"\n">>)
       /\ SkipChars(s, e + 1, UpperLetters) > e + 1
       /\ LitAt(s, SkipChars(s, e + 1, UpperLetters), <<",">>)

\* re.search(rf'\b{re.escape(bio_name)}\b.*?(?=\n[A-Z]+,|\Z)', bio_content,
\* re.DOTALL): the leftmost start, then the shortest continuation
person_section(bio_content, bio_name) ==
    LET n == Len(bio_name)
        starts == {p \in 0..(Len(bio_content) - n) :
                      /\ WordBoundary(bio_content, p)
                      /\ LitAt(bio_content, p, bio_name)
                      /\ WordBoundary(bio_content, p + n)}
    IN  IF starts = {} THEN [found |-> FALSE, text |-> <<>>]
        ELSE Only({ [found |-> TRUE,
                     text |-> SubSeq(bio_content, p0 + 1,
                                     MinOf({e \in (p0 + n)..Len(bio_content) :
                                               SectionEndsAt(bio_content, e)}))] :
                    p0 \in {MinOf(starts)} })

PoliticalCareer == <<"P","o","l","i","t","i","c","a","l"," ","C","a","r","e","e","r">>
Political == <<"P","o","l","i","t","i","c","a","l">>
PrivateCareer == <<"P","r","i","v","a","t","e"," ","C","a","r","e","e","r">>
Private == <<"P","r","i","v","a","t","e">>
Address == <<"A","d","d","r","e","s","s">>

\* the threshold of the two-word headings, 0.7, and of single words, 0.8, in tenths
PhraseThreshold == 7
WordThreshold == 8

\* for possible_header in [match + ':', match]: strip the first that content
\* starts with, and the whitespace around what is left
strip_header(content, match) ==
    IF str_startswith(content, match)
    THEN str_strip(str_from(content,
                            Len(match) + IF str_startswith(content, match \o <<":">>)
                                         THEN 1 ELSE 0))
    ELSE content

\* a private excerpt that runs on over the Address section
private_excerpt_with_address(after_private, private_match) ==
    remove_page_markers(str_strip(strip_header(after_private, private_match)))

\* lines 180-199: the private excerpt, cut at the Address heading when there is one
private_excerpt(after_private, private_match) ==
    Only({ remove_page_markers(str_strip(strip_header(
               IF address_match = <<>> THEN after_private
               ELSE str_slice(after_private, 0, str_find(after_private, address_match)),
               private_match))) :
           address_match \in {find_fuzzy_phrase_match(after_private, Address,
                                                      WordThreshold)} })

\* a heading: the two-word phrase at 0.7, else its first word at 0.8
find_heading(text, phrase, word) ==
    Only({ IF found[1] # <<>> THEN found[1] ELSE found[2] :
           found \in {[k \in 1..2 |->
                         find_fuzzy_phrase_match(text, <<phrase, word>>[k],
                                                 <<PhraseThreshold, WordThreshold>>[k])]} })

\* lines 142-201, from the person's section on
career_excerpts(section) ==
    Only({ IF political_match = <<>> THEN << <<>>, <<>> >>
           ELSE Only({ Only({
                   IF private_match = <<>>
                   THEN << remove_page_markers(
                               strip_header(after_political, political_match)), <<>> >>
                   ELSE Only({ << remove_page_markers(str_strip(
                                      strip_header(str_slice(after_political, 0,
                                                             private_start),
                                                   political_match))),
                                  private_excerpt(str_from(after_political,
                                                           private_start),
                                                  private_match) >> :
                               private_start \in {str_find(after_political,
                                                           private_match)} }) :
                   private_match \in {find_heading(after_political, PrivateCareer,
                                                   Private)} }) :
                   after_political \in {str_from(section,
                                                 str_find(section, political_match))} }) :
               political_match \in {find_heading(section, PoliticalCareer,
                                                 Political)} })

extract_bio_info(bio_content, bio_name) ==
    LET sec == person_section(bio_content, bio_name)
    IN  IF ~sec.found THEN << <<>>, <<>> >> ELSE career_excerpts(sec.text)

-----------------------------------------------------------------------------
(* Applying extract_bio_info to drawn biographies and names.               *)

Str_SMITH_JOHN == <<"S","M","I","T","H",","," ","J","O","H","N">>
Str_JOHN_SMITH == <<"J","O","H","N"," ","S","M","I","T","H">>
Str_SMITH == <<"S","M","I","T","H">>
Str_JOHN == <<"J","O","H","N">>
Str_JONES == <<"J","O","N","E","S">>
Str_Elected == <<"E","l","e","c","t","e","d"," ","1","9","9","0",".">>
Str_Lawyer == <<"L","a","w","y","e","r",".">>

\* the section headers, the person's name as the biography prints it
SectionHeaders == {Str_SMITH_JOHN, Str_JOHN_SMITH}

\* what separates the two words of the political heading: 1..MaxGap blanks, or
\* a line break
MaxGap == 2

HeadingGaps == {Repeat(" ", n) : n \in 1..MaxGap} \cup {<<"\n">>}

\* the two words of the political heading: as printed, in capitals, misread by
\* the OCR, with another second word (the one-word fallback), and absent
PoliticalHeadings ==
    { <<<<"P","o","l","i","t","i","c","a","l">>, <<"C","a","r","e","e","r",":">>>>,
      <<<<"P","O","L","I","T","I","C","A","L">>, <<"C","A","R","E","E","R">>>>,
      <<<<"P","o","l","i","t","c","a","l">>, <<"C","a","r","e","r",":">>>>,
      <<<<"P","o","l","i","t","i","c","a","l">>, <<"L","i","f","e",":">>>>,
      <<<<"O","f","f","i","c","e","s">>, <<"h","e","l","d",":">>>> }

\* the political text: one line, or two pages of it with a page block between
PoliticalBodies ==
    { Str_Elected,
      Str_Elected \o <<"\n">> \o RuleLine \o <<"\n">> \o MarkerLine \o <<"\n">>
        \o RuleLine \o <<"\n">> \o <<"\n">> \o <<"M","a","y","o","r"," ","1","9","9","5",".">> }

\* what follows it in the section: nothing, a private section with or without
\* an address, a private heading of one word, one with two blanks in it
PrivateTails ==
    { <<>>,
      <<" ","P","r","i","v","a","t","e"," ","C","a","r","e","e","r",":"," ","L","a","w","y","e","r",".">>,
      <<" ","P","r","i","v","a","t","e"," ","C","a","r","e","e","r",":"," ","L","a","w","y","e","r","."," ","A","d","d","r","e","s","s",":"," ","1"," ","M","a","i","n"," ","S","t">>,
      <<" ","P","r","i","v","a","t","e",":"," ","L","a","w","y","e","r",".">>,
      <<" ","P","r","i","v","a","t","e"," "," ","C","a","r","e","e","r",":"," ","L","a","w","y","e","r",".">> }

\* the next person's section, or none
NextSections == { <<>>, <<"\n","J","O","N","E","S",","," ","B","O","B"," ","P","o","l","i","t","i","c","a","l"," ","C","a","r","e","e","r",":"," ","M","a","y","o","r",".">> }

BioContents ==
    { h \o <<" ">> \o ph[1] \o g \o ph[2] \o <<" ">> \o b \o t \o n :
        h \in SectionHeaders, g \in HeadingGaps, ph \in PoliticalHeadings,
        b \in PoliticalBodies, t \in PrivateTails, n \in NextSections }

BioNames == {Str_JOHN_SMITH, Str_SMITH, Str_JOHN, Str_JONES}

InitBio ==
    /\ fn = "extract_bio_info"
    /\ arg \in [bio_content : BioContents, bio_name : BioNames]
    /\ out = <<>>
    /\ pc = "call"
    /\ NamesIdle /\ MatchIdle /\ OcrIdle

CallExtractBioInfo ==
    /\ fn = "extract_bio_info"
    /\ pc = "call"
    /\ out' = extract_bio_info(arg.bio_content, arg.bio_name)
    /\ pc' = "return"
    /\ UNCHANGED <<fn, arg, namesVars, matchVars, ocrVars>>

NextBio == CallExtractBioInfo

SpecBio == InitBio /\ [][NextBio]_vars

BioDone == fn = "extract_bio_info" /\ pc = "return"

\* the snippet of the specification's example
Snippet ==
    Str_SMITH_JOHN \o <<" ">> \o <<"P","o","l","i","t","i","c","a","l">> \o <<" ">> \o <<"C","a","r","e","e","r",":">> \o <<" ">>
        \o Str_Elected \o <<" ","P","r","i","v","a","t","e"," ","C","a","r","e","e","r",":"," ","L","a","w","y","e","r","."," ","A","d","d","r","e","s","s",":"," ","1"," ","M","a","i","n"," ","S","t">>

\* C4, as stated: on the snippet, with matched name JOHN SMITH, extract_bio_info
\* returns political 'Elected 1990.' and private 'Lawyer.'.
C4_SnippetJohnSmith ==
    (BioDone /\ arg.bio_content = Snippet /\ arg.bio_name = Str_JOHN_SMITH) =>
        out = <<Str_Elected, Str_Lawyer>>

\* C4, amended: on the snippet, with matched name SMITH (the name as the snippet
\* prints it before the comma), extract_bio_info returns political
\* 'Elected 1990.' and private 'Lawyer.', with the Address text excluded.
C4_SnippetSmith ==
    (BioDone /\ arg.bio_content = Snippet /\ arg.bio_name = Str_SMITH) =>
        out = <<Str_Elected, Str_Lawyer>>

\* the snippet has been read for SMITH
C4_Witness ==
    /\ BioDone /\ arg.bio_content = Snippet /\ arg.bio_name = Str_SMITH
    /\ out[2] = Str_Lawyer

\* the 0-based [b, e) offsets of the words of str.split(), in order
RECURSIVE SpansFrom(_, _)
SpansFrom(s, pos) ==
    LET b == SkipChars(s, pos, WhiteSpace)
        e == SkipUntil(s, b, WhiteSpace)
    IN  IF b >= Len(s) THEN <<>>
        ELSE <<[b |-> b, e |-> e]>> \o SpansFrom(s, e)

\* where a heading stands in text: the first pair of consecutive words that
\* share the initials of the phrase's words and are each similar to them at
\* 0.7, else the first word similar to its first word at 0.8
LocatedHeading(text, phrase, word) ==
    LET spans == SpansFrom(text, 0)
        w(i) == str_upper(SubSeq(text, spans[i].b + 1, spans[i].e))
        t == str_split(str_upper(phrase))
        pairs == {i \in 1..(Len(spans) - 1) :
                     /\ w(i)[1] = t[1][1]
                     /\ w(i + 1)[1] = t[2][1]
                     /\ SimilarityAtLeast(w(i), t[1], PhraseThreshold)
                     /\ SimilarityAtLeast(w(i + 1), t[2], PhraseThreshold)}
        singles == {i \in 1..Len(spans) :
                       SimilarityAtLeast(w(i), str_upper(word), WordThreshold)}
        i2 == CHOOSE i \in pairs : \A k \in pairs : i <= k
        i1 == CHOOSE i \in singles : \A k \in singles : i <= k
    IN  IF pairs # {}
        THEN [found |-> TRUE, b |-> spans[i2].b, e |-> spans[i2 + 1].e,
              gap |-> SubSeq(text, spans[i2].e + 1, spans[i2 + 1].b)]
        ELSE IF singles # {}
        THEN [found |-> TRUE, b |-> spans[i1].b, e |-> spans[i1].e, gap |-> <<>>]
        ELSE [found |-> FALSE, b |-> 0, e |-> 0, gap |-> <<>>]

\* the person's section has a political heading and no private heading after it
PoliticalOnly(bio_content, bio_name) ==
    LET sec == person_section(bio_content, bio_name)
        pol == LocatedHeading(sec.text, PoliticalCareer, Political)
    IN  /\ sec.found
        /\ pol.found
        /\ ~LocatedHeading(str_from(sec.text, pol.e), PrivateCareer, Private).found

\* the text of the section after its political heading, cleaned
TextAfterPoliticalHeading(bio_content, bio_name) ==
    LET sec == person_section(bio_content, bio_name)
        pol == LocatedHeading(sec.text, PoliticalCareer, Political)
    IN  remove_page_markers(str_strip(str_from(sec.text, pol.e)))

\* the whitespace between the two words of the located political heading
PoliticalHeadingGap(bio_content, bio_name) ==
    LET sec == person_section(bio_content, bio_name)
    IN  LocatedHeading(sec.text, PoliticalCareer, Political).gap

\* C5: in a section with a located political heading and no private heading
\* after it, the private excerpt is empty and the political excerpt is the whole
\* text after the heading, cleaned, whatever whitespace separates the heading's
\* two words.
C5_PoliticalOnly ==
    (BioDone /\ PoliticalOnly(arg.bio_content, arg.bio_name)) =>
        out = <<TextAfterPoliticalHeading(arg.bio_content, arg.bio_name), <<>> >>

\* the same, for the headings whose two words one blank separates (or that are
\* located by one word): this part of C5 holds
C5_PoliticalOnlyOneBlank ==
    (/\ BioDone
     /\ PoliticalOnly(arg.bio_content, arg.bio_name)
     /\ PoliticalHeadingGap(arg.bio_content, arg.bio_name) \in {<<>>, <<" ">>}) =>
        out = <<TextAfterPoliticalHeading(arg.bio_content, arg.bio_name), <<>> >>

-----------------------------------------------------------------------------
(* extract_names_from_file, from the file's content on                     *)

\* r'\b\d{4}\b' matches at offset p
YearAt(content, p) ==
    /\ p + 4 <= Len(content)
    /\ WordBoundary(content, p)
    /\ \A k \in 1..4 : content[p + k] \in Digits
    /\ WordBoundary(content, p + 4)

\* the ends of the matches of re.finditer(r'\b\d{4}\b', content) from offset p
RECURSIVE YearEndsFrom(_, _)
YearEndsFrom(content, p) ==
    LET at == {q \in p..(Len(content) - 4) : YearAt(content, q)}
    IN  IF at = {} THEN <<>>
        ELSE <<MinOf(at) + 4>> \o YearEndsFrom(content, MinOf(at) + 4)

\* lines 208-211: the content after its second 4-digit year, when it has two
strip_header_years(content) ==
    LET year_matches == YearEndsFrom(content, 0)
    IN  IF Len(year_matches) >= 2 THEN str_from(content, year_matches[2]) ELSE content

\* [A-Z\s\.-]
NameChars == UpperLetters \cup WhiteSpace \cup {".", "-"}

TitleWords == {<<"M","i","n","i","s","t","e","r">>, <<"P","r","e","m","i","e","r">>, <<"D","e","p","u","t","y">>, <<"\n">>}

\* the lookahead (?=\s+(?:Minister|Premier|Deputy|\n)) at offset e
TitleFollows(s, e) ==
    \E k \in 1..(Len(s) - e) :
        /\ \A m \in 1..k : s[e + m] \in WhiteSpace
        /\ \E t \in TitleWords : LitAt(s, e + k, t)

\* the group ([A-Z][A-Z\s\.-]+?) from offset g, at least two characters and as
\* few as the lookahead allows: its end, or -1 when a character outside the
\* class or the end of s comes first
NameGroupEnd(s, g) ==
    LET stops == {e \in (g + 2)..Len(s) :
                     \/ TitleFollows(s, e)
                     \/ e = Len(s)
                     \/ s[e + 1] \notin NameChars}
    IN  IF g + 1 < Len(s) /\ s[g + 1] \in UpperLetters /\ s[g + 2] \in NameChars
           /\ TitleFollows(s, MinOf(stops))
        THEN MinOf(stops)
        ELSE -1

\* the pattern of line 213 tried at offset p, where a match begins with a
\* capital after a word boundary: with the optional HON[.,:]*\s+ prefix first
\* (its repetitions can only end where the next class begins), then without it
name_pattern(s, p) ==
    LET g == SkipChars(s, SkipChars(s, p + 3, {".", ",", ":"}), WhiteSpace)
        withHon == /\ LitAt(s, p, <<"H","O","N">>)
                   /\ g > SkipChars(s, p + 3, {".", ",", ":"})
                   /\ NameGroupEnd(s, g) >= 0
    IN  IF ~(p < Len(s) /\ s[p + 1] \in UpperLetters /\ WordBoundary(s, p))
        THEN [ok |-> FALSE, b |-> p, e |-> p]
        ELSE IF withHon THEN [ok |-> TRUE, b |-> g, e |-> NameGroupEnd(s, g)]
        ELSE IF NameGroupEnd(s, p) >= 0
             THEN [ok |-> TRUE, b |-> p, e |-> NameGroupEnd(s, p)]
             ELSE [ok |-> FALSE, b |-> p, e |-> p]

\* re.findall(pattern, content): the groups of the matches, left to right, each
\* search resuming where the last match ended
RECURSIVE FindAllNames(_, _)
FindAllNames(s, p) ==
    LET at == {q \in p..(Len(s) - 1) : name_pattern(s, q).ok}
        m == name_pattern(s, MinOf(at))
    IN  IF at = {} THEN <<>>
        ELSE <<SubSeq(s, m.b + 1, m.e)>> \o FindAllNames(s, m.e)

\* a normalisation that strips every period
normalize_name_no_periods(match) ==
    SelectSeq(str_join(<<" ">>, str_split(str_strip(match))), LAMBDA c : c # ".")

\* ' '.join(match.strip().split()).rstrip('.')
normalize_name(match) ==
    str_rstrip_chars(str_join(<<" ">>, str_split(str_strip(match))), {"."})

RECURSIVE NormalizeAll(_)
NormalizeAll(matches) ==
    IF matches = <<>> THEN <<>>
    ELSE (IF str_strip(Head(matches)) # <<>> THEN <<normalize_name(Head(matches))>>
          ELSE <<>>)
         \o NormalizeAll(Tail(matches))

extract_names_from_file(content) ==
    NormalizeAll(FindAllNames(strip_header_years(content), 0))

-----------------------------------------------------------------------------
(* Applying extract_names_from_file to drawn names-list texts.             *)

Str_JOHN_A_SMITH == <<"J","O","H","N"," ","A","."," ","S","M","I","T","H">>
Str_JOHN_A_SMITH_bare == <<"J","O","H","N"," ","A"," ","S","M","I","T","H">>

\* the sentence of the specification's example
NamePhrase == <<"H","O","N"," ","J","O","H","N"," ","A","."," ","S","M","I","T","H"," ","M","i","n","i","s","t","e","r"," ","o","f"," ","F","i","n","a","n","c","e">>

\* what stands before the first name: nothing, a header with two years, with
\* one year, a line in capitals, text ending in a word character or in a colon
NamePrefixes ==
    { <<>>, <<"C","a","b","i","n","e","t"," ","1","9","9","0"," ","t","o"," ","1","9","9","1","\n">>, <<"C","a","b","i","n","e","t"," ","1","9","9","0","\n">>, <<"A","B","C","\n">>, <<"x">>, <<"L","i","s","t",":"," ">> }

Honorifics == { <<>>, <<"H","O","N"," ">>, <<"H","O","N","."," ">>, <<"H","O","N"," "," ">> }

PrintedNames == { Str_JOHN_A_SMITH, <<"B","O","B"," "," ","J","O","N","E","S">>, <<"M","A","R","Y","-","A","N","N"," ","L","E","E",".">> }

\* what follows the name: a title, blank lines, or no title at all
NameSuffixes == { <<" ","M","i","n","i","s","t","e","r"," ","o","f"," ","F","i","n","a","n","c","e">>, <<" ","P","r","e","m","i","e","r">>, <<" "," ","D","e","p","u","t","y"," ","P","r","e","m","i","e","r">>, <<"\n","\n">>, <<" ","o","f"," ","F","i","n","a","n","c","e">> }

\* a second entry, the example's sentence on a line of its own, or none
SecondEntries == { <<>>, <<"\n">> \o NamePhrase }

NamesContents ==
    { pre \o h \o n \o suf \o snd :
        pre \in NamePrefixes, h \in Honorifics, n \in PrintedNames,
        suf \in NameSuffixes, snd \in SecondEntries }

InitNames ==
    /\ fn = "extract_names_from_file"
    /\ arg \in [content : NamesContents]
    /\ out = <<>>
    /\ pc = "call"
    /\ NamesIdle /\ MatchIdle /\ OcrIdle

CallExtractNames ==
    /\ fn = "extract_names_from_file"
    /\ pc = "call"
    /\ out' = extract_names_from_file(arg.content)
    /\ pc' = "return"
    /\ UNCHANGED <<fn, arg, namesVars, matchVars, ocrVars>>

NextNames == CallExtractNames

SpecNames == InitNames /\ [][NextNames]_vars

NamesDone == fn = "extract_names_from_file" /\ pc = "return"

\* the offset before p of the nearest character that is not whitespace, a
\* period or a hyphen (0: there is none)
SkipBack(s, p) ==
    LET before == {q \in 1..p : s[q] \notin (WhiteSpace \cup {".", "-"})}
    IN  IF before = {} THEN 0 ELSE CHOOSE q \in before : \A r \in before : r <= q

\* the sentence stands at offset p of the content left by the year stripping,
\* and no run of capitals leads into it
PhraseStartsNameAt(content, p) ==
    LET s == strip_header_years(content)
        q == SkipBack(s, p)
    IN  /\ LitAt(s, p, NamePhrase)
        /\ (q = 0 \/ s[q] \notin UpperLetters)

Yields(found, name) == \E k \in 1..Len(found) : found[k] = name

-----------------------------------------------------------------------------
(* get_nickname_dict and match_names                                       *)

\* d[k] = v on a dict, a function from its keys
dict_set(d, k, v) == [x \in (DOMAIN d) \cup {k} |-> IF x = k THEN v ELSE d[x]]

\* the key: value pairs of the literal of lines 17-33, in its order
NicknamePairs ==
    << <<<<"B","I","L","L">>, <<"W","I","L","L","I","A","M">>>>,
       <<<<"W","I","L","L","I","A","M">>, <<"B","I","L","L">>>>,
       <<<<"G","R","E","G">>, <<"G","R","E","G","O","R","Y">>>>,
       <<<<"G","R","E","G","O","R","Y">>, <<"G","R","E","G">>>>,
       <<<<"B","O","B">>, <<"R","O","B","E","R","T">>>>,
       <<<<"R","O","B","E","R","T">>, <<"B","O","B">>>>,
       <<<<"D","A","V","E">>, <<"D","A","V","I","D">>>>,
       <<<<"D","A","V","I","D">>, <<"D","A","V","E">>>>,
       <<<<"M","I","K","E">>, <<"M","I","C","H","A","E","L">>>>,
       <<<<"M","I","C","H","A","E","L">>, <<"M","I","K","E">>>>,
       <<<<"J","I","M">>, <<"J","A","M","E","S">>>>,
       <<<<"J","A","M","E","S">>, <<"J","I","M">>>>,
       <<<<"T","O","M">>, <<"T","H","O","M","A","S">>>>,
       <<<<"T","H","O","M","A","S">>, <<"T","O","M">>>>,
       <<<<"R","I","C","K">>, <<"R","I","C","H","A","R","D">>>>,
       <<<<"R","I","C","H","A","R","D">>, <<"R","I","C","K">>>>,
       <<<<"D","I","C","K">>, <<"R","I","C","H","A","R","D">>>>,
       <<<<"R","I","C","H","A","R","D">>, <<"D","I","C","K">>>>,
       <<<<"S","T","E","V","E">>, <<"S","T","E","P","H","E","N">>>>,
       <<<<"S","T","E","P","H","E","N">>, <<"S","T","E","V","E">>>>,
       <<<<"C","H","R","I","S">>, <<"C","H","R","I","S","T","O","P","H","E","R">>>>,
       <<<<"C","H","R","I","S","T","O","P","H","E","R">>, <<"C","H","R","I","S">>>>,
       <<<<"D","A","N">>, <<"D","A","N","I","E","L">>>>,
       <<<<"D","A","N","I","E","L">>, <<"D","A","N">>>>,
       <<<<"M","A","T","T">>, <<"M","A","T","T","H","E","W">>>>,
       <<<<"M","A","T","T","H","E","W">>, <<"M","A","T","T">>>>,
       <<<<"K","E","N">>, <<"K","E","N","N","E","T","H">>>>,
       <<<<"K","E","N","N","E","T","H">>, <<"K","E","N">>>>,
       <<<<"D","R","E","W">>, <<"A","N","D","R","E","W">>>>,
       <<<<"A","N","D","R","E","W">>, <<"D","R","E","W">>>> >>

\* a table in which the first of two equal keys of the literal stays
RECURSIVE DictOfPairsFirstKept(_, _)
DictOfPairsFirstKept(pairs, n) ==
    IF n = 0 THEN <<>>
    ELSE Only({ IF pairs[n][1] \in DOMAIN d THEN d
                ELSE dict_set(d, pairs[n][1], pairs[n][2]) :
                d \in {DictOfPairsFirstKept(pairs, n - 1)} })

\* a dict display is built pair by pair, a repeated key keeping the later value
RECURSIVE DictOfPairs(_, _)
DictOfPairs(pairs, n) ==
    IF n = 0 THEN <<>>
    ELSE dict_set(DictOfPairs(pairs, n - 1), pairs[n][1], pairs[n][2])

get_nickname_dict == DictOfPairs(NicknamePairs, Len(NicknamePairs))

InSeq(x, seq) == \E k \in 1..Len(seq) : seq[k] = x

\* line 46: any(part in bio_parts for part in name_parts)
direct_match(name_parts, bio_parts) ==
    \E k \in 1..Len(name_parts) : InSeq(name_parts[k], bio_parts)

\* lines 51-54: some part is a key of the table and its value is a bio part
nickname_match(name_parts, bio_parts, nickname_dict) ==
    \E k \in 1..Len(name_parts) :
        /\ name_parts[k] \in DOMAIN nickname_dict
        /\ InSeq(nickname_dict[name_parts[k]], bio_parts)

\* a binding that an entry keeps once it has one
bind_first(m, name, bio_name) ==
    IF name \in DOMAIN m THEN m ELSE dict_set(m, name, bio_name)

\* lines 47 and 55: matches[name] = bio_name
bind(m, name, bio_name) == dict_set(m, name, bio_name)

\* one pass of the loop of line 42 for the bio name at bi: a direct match binds
\* and leaves the loop over the names list (the break of line 48); a nickname
\* match binds and leaves the loop over the name's parts only (the break of
\* line 56), so the names list is gone through further
MatchName ==
    /\ pc = "match"
    /\ bi < Len(bio_names)
    /\ ni < Len(names)
    /\ LET bio_name == bio_names[bi + 1]
           bio_parts == str_split(bio_name)
           name == names[ni + 1]
           name_parts == str_split(name)
       IN  IF direct_match(name_parts, bio_parts)
           THEN /\ name_matches' = bind(name_matches, name, bio_name)
                /\ bound_at' = Append(bound_at, <<bi, ni>>)
                /\ bi' = bi + 1
                /\ ni' = 0
           ELSE IF nickname_match(name_parts, bio_parts, get_nickname_dict)
           THEN /\ name_matches' = bind(name_matches, name, bio_name)
                /\ bound_at' = Append(bound_at, <<bi, ni>>)
                /\ ni' = ni + 1
                /\ bi' = bi
           ELSE /\ ni' = ni + 1
                /\ UNCHANGED <<name_matches, bound_at, bi>>
    /\ UNCHANGED <<fnVars, namesVars, bio_names, ocrVars>>

\* the loop of line 42 has gone through the names list: the next bio name
MatchNextBioName ==
    /\ pc = "match"
    /\ bi < Len(bio_names)
    /\ ni >= Len(names)
    /\ bi' = bi + 1
    /\ ni' = 0
    /\ UNCHANGED <<fnVars, namesVars, bio_names, name_matches, bound_at, ocrVars>>

\* line 59, when match_names is applied on its own
MatchReturn ==
    /\ fn = "match_names"
    /\ pc = "match"
    /\ bi >= Len(bio_names)
    /\ pc' = "return"
    /\ out' = name_matches
    /\ UNCHANGED <<fn, arg, namesVars, matchVars, ocrVars>>

-----------------------------------------------------------------------------
(* Applying match_names to drawn bio names and names lists.                *)

MaxBioNames == 2
MaxNames == 2

Str_BOB_SMITH == <<"B","O","B"," ","S","M","I","T","H">>
Str_DICK == <<"D","I","C","K">>
Str_ROBERT_JONES == <<"R","O","B","E","R","T"," ","J","O","N","E","S">>
Str_RICHARD_ROE == <<"R","I","C","H","A","R","D"," ","R","O","E">>

DrawnBioNames == {Str_BOB_SMITH, Str_JOHN, Str_SMITH, Str_DICK}

DrawnNames == {Str_ROBERT_JONES, Str_JOHN_SMITH, Str_RICHARD_ROE}

SeqsUpTo(S, n) == UNION {[1..k -> S] : k \in 0..n}

InitMatch ==
    /\ fn = "match_names"
    /\ arg \in [bio_names : SeqsUpTo(DrawnBioNames, MaxBioNames),
                names_list : SeqsUpTo(DrawnNames, MaxNames)]
    /\ out = <<>>
    /\ pc = "match"
    /\ bio_names = arg.bio_names
    /\ names = arg.names_list
    /\ name_matches = <<>> /\ bi = 0 /\ ni = 0 /\ bound_at = <<>>
    /\ file_idx = 0 /\ first_names = <<>> /\ last_names = <<>>
    /\ political_positions = <<>> /\ private_positions = <<>> /\ name_idx = 0
    /\ cleanups = <<>>
    /\ OcrIdle

NextMatch == MatchName \/ MatchNextBioName \/ MatchReturn

SpecMatch == InitMatch /\ [][NextMatch]_vars

\* C9: during the traversal of one bio name at most one names-list entry is
\* bound to it, whichever rule matched.
C9_OneEntryPerBioName ==
    \A h, k \in 1..Len(bound_at) :
        bound_at[h][1] = bound_at[k][1] => bound_at[h][2] = bound_at[k][2]

\* C10, as stated: once an entry has a binding in the result map, no later bio
\* name that hits the entry replaces it.
C10_BindingKept ==
    [][\A n \in DOMAIN name_matches :
          n \in DOMAIN name_matches' /\ name_matches'[n] = name_matches[n]]_vars

\* the index of the last bio name that hit the entry named n
LastHit(n) ==
    LET at == {bound_at[h][1] : h \in {k \in 1..Len(bound_at) :
                                          names[bound_at[k][2] + 1] = n}}
    IN  CHOOSE b \in at : \A c \in at : c <= b

\* C10, amended: each names-list entry of the result map is bound to the last
\* bio name, in bio_names traversal order, that hit it: a later bio name that
\* hits the entry replaces the binding; the entries of the map are those hit.
C10_LastHitBound ==
    /\ DOMAIN name_matches = {names[bound_at[k][2] + 1] : k \in 1..Len(bound_at)}
    /\ \A n \in DOMAIN name_matches : name_matches[n] = bio_names[LastHit(n) + 1]

\* match_names has returned a map in which an entry hit by two different bio
\* names holds the later one
C10_Witness ==
    /\ fn = "match_names" /\ pc = "return"
    /\ \E h, k \in 1..Len(bound_at) :
          /\ h < k
          /\ bound_at[h][2] = bound_at[k][2]
          /\ bio_names[bound_at[h][1] + 1] # bio_names[bound_at[k][1] + 1]
          /\ out[names[bound_at[k][2] + 1]] = bio_names[bound_at[k][1] + 1]


-----------------------------------------------------------------------------
(* Applying match_names to one bio name and one names-list entry whose     *)
(* first token is a key of the nickname table.                             *)

Str_RICHARD == <<"R","I","C","H","A","R","D">>
Str_RICK == <<"R","I","C","K">>
Str_ROE == <<"R","O","E">>

NicknameKeys == DOMAIN get_nickname_dict

InitNicknames ==
    /\ fn = "match_names"
    /\ arg \in [bio_names : {<<b>> : b \in NicknameKeys},
                names_list : {<<k \o <<" ">> \o Str_ROE>> : k \in NicknameKeys}]
    /\ out = <<>>
    /\ pc = "match"
    /\ bio_names = arg.bio_names
    /\ names = arg.names_list
    /\ name_matches = <<>> /\ bi = 0 /\ ni = 0 /\ bound_at = <<>>
    /\ file_idx = 0 /\ first_names = <<>> /\ last_names = <<>>
    /\ political_positions = <<>> /\ private_positions = <<>> /\ name_idx = 0
    /\ cleanups = <<>>
    /\ OcrIdle

SpecNicknames == InitNicknames /\ [][NextMatch]_vars

\* the key the drawn entry begins with, and whether match_names bound the entry
EntryKey == str_split(arg.names_list[1])[1]
EntryBound == arg.names_list[1] \in DOMAIN out

\* C11: the table maps RICHARD to RICK only, so an entry whose only matching
\* token is RICHARD matches a bio name with the token RICK and not one with
\* DICK; every other key k of the table satisfies table[table[k]] = k.
C11_RichardIsRick ==
    /\ get_nickname_dict[Str_RICHARD] = Str_RICK
    /\ (fn = "match_names" /\ pc = "return" /\ EntryKey = Str_RICHARD) =>
          /\ arg.bio_names = <<Str_RICK>> => EntryBound
          /\ arg.bio_names = <<Str_DICK>> => ~EntryBound
    /\ EntryKey # Str_RICHARD =>
          get_nickname_dict[get_nickname_dict[EntryKey]] = EntryKey

\* C11, amended: the table maps RICHARD to DICK only, the later of the two
\* RICHARD entries of the literal, so an entry whose only matching token is
\* RICHARD matches a bio name with the token DICK and not one with RICK; every
\* key k other than RICK satisfies table[table[k]] = k, and RICK leads to DICK.
C11_RichardIsDick ==
    /\ get_nickname_dict[Str_RICHARD] = Str_DICK
    /\ (fn = "match_names" /\ pc = "return" /\ EntryKey = Str_RICHARD) =>
          /\ arg.bio_names = <<Str_DICK>> => EntryBound /\ out[arg.names_list[1]] = Str_DICK
          /\ arg.bio_names = <<Str_RICK>> => ~EntryBound
    /\ EntryKey # Str_RICK =>
          get_nickname_dict[get_nickname_dict[EntryKey]] = EntryKey
    /\ EntryKey = Str_RICK =>
          get_nickname_dict[get_nickname_dict[EntryKey]] = Str_DICK

\* match_names has returned for the entry RICHARD ROE and the bio name DICK,
\* bound by the nickname rule
C11_Witness ==
    /\ fn = "match_names" /\ pc = "return"
    /\ arg.names_list = <<Str_RICHARD \o <<" ">> \o Str_ROE>>
    /\ arg.bio_names = <<Str_DICK>>
    /\ EntryBound
    /\ bound_at = <<<<0, 0>>>>

-----------------------------------------------------------------------------
(* get_gemini_response and load_and_configure_api. What the key file, the   *)
(* client library and the service do is drawn: a world says which step      *)
(* fails. A call's outcome is [raised, value]: the exception that leaves    *)
(* it, or the value it returns.                                             *)

Str_ConfigFailed == <<"E","r","r","o","r",":"," ","A","P","I"," ","c","o","n","f","i","g","u","r","a","t","i","o","n"," ","f","a","i","l","e","d",".">>
Str_GenerateFailed == <<"A","n"," ","e","r","r","o","r"," ","o","c","c","u","r","r","e","d"," ","w","h","i","l","e"," ","g","e","n","e","r","a","t","i","n","g"," ","t","h","e"," ","r","e","s","p","o","n","s","e",":"," ">>
Str_Boom == <<"b","o","o","m">>
Str_Cleaned == <<"C","l","e","a","n","e","d",".">>

Returns(v) == [raised |-> FALSE, value |-> v]
Raises(e) == [raised |-> TRUE, value |-> e]

\* lines 16-27, the body of the try: reading the key file and configuring the
\* client may raise
configure_api(world) ==
    IF world.key_file = "missing" THEN Returns(FALSE)
    ELSE IF world.key_file = "unreadable" THEN Raises(Str_Boom)
    ELSE IF world.key_file = "empty" THEN Returns(FALSE)
    ELSE IF world.configure = "raises" THEN Raises(Str_Boom)
    ELSE Returns(TRUE)

\* lines 15-31: the try, and the except that answers False
load_and_configure_api(world) ==
    LET r == configure_api(world)
    IN  IF r.raised THEN Returns(FALSE) ELSE r

\* lines 45-51, the body of the try
generate_response(prompt, world) ==
    IF ~load_and_configure_api(world).value THEN Returns(Str_ConfigFailed)
    ELSE IF world.generate = "raises" THEN Raises(Str_Boom)
    ELSE IF world.generate = "blocked" THEN Raises(Str_Boom)
    ELSE Returns(world.reply)

\* a client without the except of line 53
get_gemini_response_unguarded(prompt, world) == generate_response(prompt, world)

\* lines 44-54: the try, and the except that turns an exception into a message
get_gemini_response(prompt, world) ==
    LET r == generate_response(prompt, world)
    IN  IF r.raised THEN Returns(Str_GenerateFailed \o r.value) ELSE r

Worlds ==
    { [key_file |-> "missing", configure |-> "ok", generate |-> "ok", reply |-> Str_Cleaned],
      [key_file |-> "empty", configure |-> "ok", generate |-> "ok", reply |-> Str_Cleaned],
      [key_file |-> "unreadable", configure |-> "ok", generate |-> "ok", reply |-> Str_Cleaned],
      [key_file |-> "present", configure |-> "raises", generate |-> "ok", reply |-> Str_Cleaned],
      [key_file |-> "present", configure |-> "ok", generate |-> "raises", reply |-> Str_Cleaned],
      [key_file |-> "present", configure |-> "ok", generate |-> "blocked", reply |-> Str_Cleaned],
      [key_file |-> "present", configure |-> "ok", generate |-> "ok", reply |-> Str_Cleaned] }

\* the worlds in which the call cannot produce a response
Failing(world) ==
    world.key_file # "present" \/ world.configure # "ok" \/ world.generate # "ok"

-----------------------------------------------------------------------------
(* process_names_files                                                     *)

\* [A-Z\s,.-]
BioNameChars == UpperLetters \cup WhiteSpace \cup {",", ".", "-"}

\* the group ([A-Z][A-Z\s,.-]+?) of line 279 from offset g, ended by the nearest
\* lookahead (?=\s|,|\n): its end, or -1
BioGroupEnd(s, g) ==
    LET stops == {e \in (g + 2)..Len(s) :
                     e = Len(s) \/ s[e + 1] \notin (BioNameChars \ (WhiteSpace \cup {","}))}
    IN  IF g + 1 < Len(s) /\ s[g + 1] \in UpperLetters /\ s[g + 2] \in BioNameChars
           /\ MinOf(stops) < Len(s)
           /\ s[MinOf(stops) + 1] \in WhiteSpace \cup {","}
        THEN MinOf(stops)
        ELSE -1

\* bio_pattern tried at offset p: with the optional HON\s+ first, then without
bio_pattern(s, p) ==
    LET g == SkipChars(s, p + 3, WhiteSpace)
        withHon == /\ LitAt(s, p, <<"H","O","N">>)
                   /\ g > p + 3
                   /\ BioGroupEnd(s, g) >= 0
    IN  IF withHon THEN [ok |-> TRUE, b |-> g, e |-> BioGroupEnd(s, g)]
        ELSE IF BioGroupEnd(s, p) >= 0
             THEN [ok |-> TRUE, b |-> p, e |-> BioGroupEnd(s, p)]
             ELSE [ok |-> FALSE, b |-> p, e |-> p]

RECURSIVE FindAllBioNames(_, _)
FindAllBioNames(s, p) ==
    LET at == {q \in p..(Len(s) - 1) : bio_pattern(s, q).ok}
        m == bio_pattern(s, MinOf(at))
    IN  IF at = {} THEN <<>>
        ELSE <<SubSeq(s, m.b + 1, m.e)>> \o FindAllBioNames(s, m.e)

\* line 281: the matches longer than two characters, whitespace collapsed and
\* trailing periods and commas stripped
RECURSIVE NormalizeBioNames(_)
NormalizeBioNames(found) ==
    IF found = <<>> THEN <<>>
    ELSE (IF Len(str_strip(Head(found))) > 2
          THEN <<str_rstrip_chars(str_join(<<" ">>, str_split(str_strip(Head(found)))),
                                  {".", ","})>>
          ELSE <<>>)
         \o NormalizeBioNames(Tail(found))

bio_names_of(bio_content) == NormalizeBioNames(FindAllBioNames(bio_content, 0))

\* a table that leaves out the names of a single word
name_columns_skip_single(extracted) ==
    LET kept == SelectSeq(extracted, LAMBDA n : Len(str_split(str_strip(n))) >= 2)
    IN  [first_names |-> [k \in 1..Len(kept) |-> str_split(str_strip(kept[k]))[1]],
         last_names |-> [k \in 1..Len(kept) |->
                            str_split(str_strip(kept[k]))[Len(str_split(str_strip(kept[k])))]]]

\* lines 253-266: the first and the last word of each name, '' where there is none
name_columns(extracted) ==
    LET parts(k) == str_split(str_strip(extracted[k]))
    IN  [first_names |-> [k \in 1..Len(extracted) |->
                             IF Len(parts(k)) >= 1 THEN parts(k)[1] ELSE <<>>],
         last_names |-> [k \in 1..Len(extracted) |->
                            IF Len(parts(k)) >= 2 THEN parts(k)[Len(parts(k))] ELSE <<>>]]

Str_Names == <<"N","a","m","e","s">>
Str_csv == <<".","c","s","v">>

\* lines 240-244: the csv name of a names file, <<>> when the stem does not
\* read {year}_{base}_Names
csv_filename(stem) ==
    LET filename_parts == str_split_on(stem, "_")
        n == Len(filename_parts)
    IN  IF n >= 3 /\ filename_parts[n] = Str_Names
        THEN filename_parts[1] \o <<"_">>
             \o str_join(<<"_">>, SubSeq(filename_parts, 2, n - 1)) \o Str_csv
        ELSE <<>>

\* lines 311-316: pd.DataFrame of the four columns, which must be equally long
DataFrame(fs, ls, ps, vs) ==
    IF Len(ls) = Len(fs) /\ Len(ps) = Len(fs) /\ Len(vs) = Len(fs)
    THEN Returns([k \in 1..Len(fs) |->
                     [first_name |-> fs[k], last_name |-> ls[k],
                      political_career |-> ps[k], private_career |-> vs[k]]])
    ELSE Raises(<<>>)

CurrentFile == arg.names_files[file_idx + 1]

\* lines 221-235: without the prompt template nothing is processed
StartNamesFiles ==
    /\ fn = "process_names_files"
    /\ pc = "start"
    /\ pc' = IF arg.prompt_exists THEN "file" ELSE "done"
    /\ UNCHANGED <<fn, arg, out, namesVars, matchVars, ocrVars>>

\* lines 237-284: the next names file, up to the call of match_names
NextNamesFile ==
    /\ fn = "process_names_files"
    /\ pc = "file"
    /\ IF file_idx >= Len(arg.names_files)
       THEN /\ pc' = "done"
            /\ UNCHANGED <<namesVars, matchVars>>
       ELSE IF csv_filename(CurrentFile.stem) = <<>>
       THEN /\ file_idx' = file_idx + 1
            /\ pc' = "file"
            /\ UNCHANGED <<names, first_names, last_names, political_positions,
                           private_positions, name_idx, cleanups, matchVars>>
       ELSE \E extracted \in {extract_names_from_file(CurrentFile.content)} :
            LET cols == name_columns(extracted)
            IN  /\ names' = extracted
                /\ IF extracted = <<>>
                   THEN /\ file_idx' = file_idx + 1
                        /\ pc' = "file"
                        /\ UNCHANGED <<first_names, last_names, political_positions,
                                       private_positions, name_idx, cleanups,
                                       matchVars>>
                   ELSE /\ first_names' = cols.first_names
                        /\ last_names' = cols.last_names
                        /\ political_positions' = [k \in 1..Len(extracted) |-> <<>>]
                        /\ private_positions' = [k \in 1..Len(extracted) |-> <<>>]
                        /\ cleanups' = <<>>
                        /\ UNCHANGED <<file_idx, name_idx>>
                        /\ IF CurrentFile.bio # <<>>
                           THEN /\ bio_names' = bio_names_of(CurrentFile.bio[1])
                                /\ name_matches' = <<>>
                                /\ bi' = 0 /\ ni' = 0
                                /\ bound_at' = <<>>
                                /\ pc' = "match"
                           ELSE /\ pc' = "write"
                                /\ UNCHANGED matchVars
    /\ UNCHANGED <<fn, arg, out, ocrVars>>

\* line 284 returns: the loop of line 288 begins
MatchNamesReturns ==
    /\ fn = "process_names_files"
    /\ pc = "match"
    /\ bi >= Len(bio_names)
    /\ pc' = "rows"
    /\ name_idx' = 0
    /\ UNCHANGED <<fn, arg, out, file_idx, names, first_names, last_names,
                   political_positions, private_positions, cleanups, matchVars,
                   ocrVars>>

\* the calls of lines 292-301 for one excerpt: none when cleaning is off or the
\* excerpt is empty
Cleaned(excerpt, world) ==
    IF arg.enable_clean /\ excerpt # <<>>
    THEN get_gemini_response(arg.clean_prompt_base \o excerpt, world)
    ELSE Returns(excerpt)

CleanupRecord(column, excerpt, world, result) ==
    IF arg.enable_clean /\ excerpt # <<>>
    THEN << [row |-> name_idx, column |-> column, failing |-> Failing(world),
             original |-> excerpt, result |-> result.value] >>
    ELSE <<>>

\* lines 288-305: one name of the loop; an exception leaving a call ends the run
ExtractCareer ==
    /\ fn = "process_names_files"
    /\ pc = "rows"
    /\ name_idx < Len(names)
    /\ IF names[name_idx + 1] \in DOMAIN name_matches
       THEN \E both \in {extract_bio_info(CurrentFile.bio[1],
                                          name_matches[names[name_idx + 1]])} :
            \E wp, wv \in Worlds :
              LET political == Cleaned(both[1], wp)
                  private == Cleaned(both[2], wv)
              IN  IF political.raised \/ private.raised
                  THEN /\ pc' = "raised"
                       /\ UNCHANGED <<political_positions, private_positions,
                                      name_idx, cleanups>>
                  ELSE /\ political_positions' =
                              [political_positions EXCEPT ![name_idx + 1] = political.value]
                       /\ private_positions' =
                              [private_positions EXCEPT ![name_idx + 1] = private.value]
                       /\ cleanups' = cleanups
                              \o CleanupRecord("political", both[1], wp, political)
                              \o CleanupRecord("private", both[2], wv, private)
                       /\ name_idx' = name_idx + 1
                       /\ pc' = "rows"
       ELSE /\ name_idx' = name_idx + 1
            /\ pc' = "rows"
            /\ UNCHANGED <<political_positions, private_positions, cleanups>>
    /\ UNCHANGED <<fn, arg, out, file_idx, names, first_names, last_names, matchVars,
                   ocrVars>>

\* line 307: the loop of line 288 is through
CareersExtracted ==
    /\ fn = "process_names_files"
    /\ pc = "rows"
    /\ name_idx >= Len(names)
    /\ pc' = "write"
    /\ UNCHANGED <<fn, arg, out, namesVars, matchVars, ocrVars>>

\* lines 311-320: the table of the file is written, and the next file is taken
WriteCsv ==
    /\ fn = "process_names_files"
    /\ pc = "write"
    /\ LET df == DataFrame(first_names, last_names, political_positions,
                           private_positions)
       IN  IF df.raised
           THEN /\ pc' = "raised"
                /\ UNCHANGED <<out, file_idx>>
           ELSE /\ out' = Append(out, [name |-> csv_filename(CurrentFile.stem),
                                       rows |-> df.value])
                /\ file_idx' = file_idx + 1
                /\ pc' = "file"
    /\ UNCHANGED <<fn, arg, names, first_names, last_names, political_positions,
                   private_positions, name_idx, cleanups, matchVars, ocrVars>>

-----------------------------------------------------------------------------
(* Running process_names_files over drawn directories.                     *)

MaxFiles == 1

Str_Clean == <<"C","l","e","a","n",":"," ">>

\* a names file whose stem reads {year}_{base}_Names, one with a longer base,
\* and one that *Names.txt matches but that has no base
NamesStems == { <<"1","9","9","0","_","H","o","u","s","e","_","N","a","m","e","s">>, <<"1","9","9","1","_","U","p","p","e","r","_","H","o","u","s","e","_","N","a","m","e","s">>, <<"1","9","9","2","_","N","a","m","e","s">> }

\* two entries, one entry of a single word, and a text without a title word
NamesTexts == { <<"H","O","N"," ","J","O","H","N"," ","S","M","I","T","H"," ","M","i","n","i","s","t","e","r","\n","H","O","N"," ","R","O","B","E","R","T"," ","J","O","N","E","S"," ","P","r","e","m","i","e","r","\n">>, <<"H","O","N"," ","S","M","I","T","H"," ","M","i","n","i","s","t","e","r","\n">>, <<"n","o"," ","n","a","m","e","s"," ","h","e","r","e">> }

\* no Bio file, one with two sections, one whose heading has two blanks
BioFiles ==
    { <<>>,
      << Snippet \o <<"\n","J","O","N","E","S",","," ","B","O","B"," ","P","o","l","i","t","i","c","a","l"," ","C","a","r","e","e","r",":"," ","M","a","y","o","r",".">> >>,
      << <<"J","O","N","E","S",","," ","B","O","B"," ","P","o","l","i","t","i","c","a","l"," "," ","C","a","r","e","e","r",":"," ","M","a","y","o","r",".">> >> }

\* what extract_names_from_file yields for each of the drawn texts, and the csv
\* name of each of the drawn stems
ExtractedNames == [content \in NamesTexts |-> extract_names_from_file(content)]
CsvNames == [stem \in NamesStems |-> csv_filename(stem)]

\* a Bio file stands beside the files that hold names only
NamesFileChoices ==
    {f \in [stem : NamesStems, content : NamesTexts, bio : BioFiles] :
        f.bio # <<>> => ExtractedNames[f.content] # <<>>}

\* the *Names.txt files of a directory: their stems differ
Directories ==
    {d \in SeqsUpTo(NamesFileChoices, MaxFiles) :
        \A h, k \in 1..Len(d) : h # k => d[h].stem # d[k].stem}

Init ==
    /\ fn = "process_names_files"
    /\ arg \in [prompt_exists : BOOLEAN, enable_clean : BOOLEAN,
                clean_prompt_base : {Str_Clean}, names_files : Directories]
    /\ out = <<>>
    /\ pc = "start"
    /\ NamesIdle /\ MatchIdle /\ OcrIdle

Next ==
    \/ StartNamesFiles
    \/ NextNamesFile
    \/ MatchName
    \/ MatchNextBioName
    \/ MatchNamesReturns
    \/ ExtractCareer
    \/ CareersExtracted
    \/ WriteCsv

Spec == Init /\ [][Next]_vars

\* the rows are built from the names, one row per name and in their order
RowsOfNames(rows, extracted) ==
    /\ Len(rows) = Len(extracted)
    /\ \A k \in 1..Len(extracted) :
          LET parts == str_split(extracted[k])
          IN  /\ rows[k].first_name = parts[1]
              /\ rows[k].last_name = IF Len(parts) >= 2 THEN parts[Len(parts)] ELSE <<>>

\* the names file at k is processed and yields at least one name
YieldsNames(k) ==
    /\ CsvNames[arg.names_files[k].stem] # <<>>
    /\ ExtractedNames[arg.names_files[k].content] # <<>>

\* C1: for every names file processed from which N >= 1 names are extracted the
\* table written has exactly N rows, row i built from the i-th name, with or
\* without a Bio file and whatever was matched; matching and career extraction
\* keep the columns at N entries, no other table is written and no file's
\* processing fails.
C1_RowPerName ==
    /\ pc # "raised"
    /\ \A k \in 1..file_idx :
          YieldsNames(k) =>
              \E t \in 1..Len(out) :
                  /\ out[t].name = CsvNames[arg.names_files[k].stem]
                  /\ RowsOfNames(out[t].rows,
                                 ExtractedNames[arg.names_files[k].content])
    /\ \A t \in 1..Len(out) :
          \E k \in 1..file_idx :
              /\ YieldsNames(k)
              /\ out[t].name = CsvNames[arg.names_files[k].stem]
    /\ pc \in {"match", "rows", "write"} =>
          /\ names = ExtractedNames[CurrentFile.content]
          /\ Len(first_names) = Len(names)
          /\ Len(last_names) = Len(names)
          /\ Len(political_positions) = Len(names)
          /\ Len(private_positions) = Len(names)

\* the run is over and has written, for a file with a Bio file, a table of two
\* rows of which only the second was matched and has a career
C1_Witness ==
    /\ pc = "done"
    /\ name_matches # <<>>
    /\ \E t \in 1..Len(out) :
          /\ Len(out[t].rows) = 2
          /\ out[t].rows[1].political_career = <<>>
          /\ out[t].rows[2].political_career # <<>>

ErrorMessages == {Str_ConfigFailed, Str_GenerateFailed \o Str_Boom}

PositionsOf(column) ==
    IF column = "political" THEN political_positions ELSE private_positions

\* C3: get_gemini_response never raises; when the key file is missing or empty
\* or configuring or generating raises it returns an error message, and with
\* cleaning enabled that message is what the row's cell holds in place of the
\* non-empty excerpt, the remaining names being gone through all the same.
C3_ErrorMessageStored ==
    /\ pc # "raised"
    /\ \A c \in 1..Len(cleanups) :
          /\ arg.enable_clean
          /\ cleanups[c].original # <<>>
          /\ cleanups[c].failing => cleanups[c].result \in ErrorMessages
          /\ PositionsOf(cleanups[c].column)[cleanups[c].row + 1] = cleanups[c].result
    /\ (pc = "write" /\ CurrentFile.bio # <<>>) => name_idx = Len(names)

\* a failed call for the first of two names has left its message in the table
\* written
C3_Witness ==
    /\ pc = "done"
    /\ \E c \in 1..Len(cleanups) :
          /\ cleanups[c].failing
          /\ cleanups[c].row = 0
          /\ cleanups[c].column = "political"
    /\ \E t \in 1..Len(out) :
          /\ Len(out[t].rows) = 2
          /\ out[t].rows[1].political_career = Str_ConfigFailed

-----------------------------------------------------------------------------
(* pdf2txt.py: ocr_image, process_single_pdf and process_all_pdfs.  A page *)
(* image is what EasyOCR reads from it as it is and after the filters of   *)
(* preprocess_image; a detection is <<box, text, confidence>>, the         *)
(* confidence in hundredths.                                               *)

\* the default confidence_threshold of ocr_image, 0.3, and that of the last
\* attempt, 0.1, in hundredths
DefaultThreshold == 30
LowThreshold == 10

\* lines 33-42: the filtered image, the image itself when a filter raises
preprocess_image(img) ==
    IF img.filters THEN [img EXCEPT !.shown = "pre"] ELSE img

\* self.ocr.readtext(image, detail=1)
readtext(img) == IF img.shown = "pre" THEN img.pre ELSE img.raw

\* lines 59-72
ocr_image(img, preprocess, confidence_threshold) ==
    LET result == readtext(IF preprocess THEN preprocess_image(img) ELSE img)
        kept == SelectSeq(result,
                          LAMBDA detection :
                              Len(detection) >= 3 /\ detection[3] >= confidence_threshold)
    IN  IF result = <<>> THEN <<>>
        ELSE str_join(<<"\n">>, [k \in 1..Len(kept) |-> kept[k][2]])

\* a retry with preprocessing forced on, whatever the flag of the caller
retry_preprocessed_always(text, preprocess_images) == str_strip(text) = <<>>

\* line 87: the first attempt read nothing, and it was made without preprocessing
retry_preprocessed(text, preprocess_images) ==
    str_strip(text) = <<>> /\ ~preprocess_images

Attempt(preprocess, confidence_threshold) ==
    [preprocess |-> preprocess, confidence_threshold |-> confidence_threshold]

\* the history of the current page with one more call, or its count, recorded
Tried(attempt) ==
    [tried EXCEPT ![page_num + 1].attempts = Append(@, attempt)]
Counted(how) == [tried EXCEPT ![page_num + 1].counted = how]

\* the page images a PDF is drawn from
Str_Hi == <<"H","i">>

Sure == <<"box", Str_Hi, 90>>
Unsure == <<"box", Str_Hi, 20>>
Noise == <<"box", Str_Hi, 5>>
Smudge == <<"box", <<" ">>, 90>>

\* a clear page; one only the filters make readable; one whose filters raise;
\* one read with little confidence; one read as a blank; one that is empty
PageImages ==
    { [shown |-> "raw", raw |-> <<Sure>>, pre |-> <<Sure>>, filters |-> TRUE],
      [shown |-> "raw", raw |-> <<>>, pre |-> <<Sure>>, filters |-> TRUE],
      [shown |-> "raw", raw |-> <<>>, pre |-> <<Sure>>, filters |-> FALSE],
      [shown |-> "raw", raw |-> <<Noise>>, pre |-> <<Noise, Unsure>>, filters |-> TRUE],
      [shown |-> "raw", raw |-> <<Smudge>>, pre |-> <<Smudge>>, filters |-> TRUE],
      [shown |-> "raw", raw |-> <<>>, pre |-> <<>>, filters |-> TRUE] }

\* lines 114-120: without PDF files there is nothing to do
StartAllPdfs ==
    /\ fn = "process_all_pdfs"
    /\ pc = "start"
    /\ pc' = IF arg.pdf_files = <<>> THEN "done" ELSE "pdf"
    /\ UNCHANGED <<fn, arg, out, namesVars, matchVars, ocrVars>>

\* lines 122-125 and 75-80: the next PDF is rendered; one without a page image
\* returns False
NextPdf ==
    /\ fn = "process_all_pdfs"
    /\ pc = "pdf"
    /\ IF pdf_idx >= Len(arg.pdf_files)
       THEN /\ pc' = "done"
            /\ UNCHANGED ocrVars
       ELSE /\ images' = arg.pdf_files[pdf_idx + 1]
            /\ page_num' = 0
            /\ all_text' = <<>>
            /\ empty_pages' = 0
            /\ tried' = <<>>
            /\ IF arg.pdf_files[pdf_idx + 1] = 0
               THEN /\ returned' = Append(returned, "False")
                    /\ pdf_idx' = pdf_idx + 1
                    /\ pc' = "pdf"
               ELSE /\ pc' = "page"
                    /\ UNCHANGED <<returned, pdf_idx>>
            /\ UNCHANGED <<successful, image, page_text>>
    /\ UNCHANGED <<fn, arg, out, namesVars, matchVars>>

\* lines 82-85: the next page, read with the flag of the caller
OcrPage ==
    /\ fn = "process_all_pdfs"
    /\ pc = "page"
    /\ page_num < images
    /\ \E img \in PageImages :
          /\ image' = img
          /\ page_text' = ocr_image(img, arg.preprocess_images, DefaultThreshold)
    /\ tried' = Append(tried, [attempts |-> <<Attempt(arg.preprocess_images,
                                                      DefaultThreshold)>>,
                               counted |-> "pending"])
    /\ pc' = "first"
    /\ UNCHANGED <<fn, arg, out, namesVars, matchVars, pdf_idx, successful, images,
                   page_num, all_text, empty_pages, returned>>

\* lines 87-88
RetryPreprocessed ==
    /\ fn = "process_all_pdfs"
    /\ pc = "first"
    /\ IF retry_preprocessed(page_text, arg.preprocess_images)
       THEN /\ page_text' = ocr_image(image, TRUE, DefaultThreshold)
            /\ tried' = Tried(Attempt(TRUE, DefaultThreshold))
       ELSE UNCHANGED <<page_text, tried>>
    /\ pc' = "second"
    /\ UNCHANGED <<fn, arg, out, namesVars, matchVars, pdf_idx, successful, images,
                   image, page_num, all_text, empty_pages, returned>>

\* lines 90-91
RetryLowThreshold ==
    /\ fn = "process_all_pdfs"
    /\ pc = "second"
    /\ IF str_strip(page_text) = <<>>
       THEN /\ page_text' = ocr_image(image, TRUE, LowThreshold)
            /\ tried' = Tried(Attempt(TRUE, LowThreshold))
       ELSE UNCHANGED <<page_text, tried>>
    /\ pc' = "third"
    /\ UNCHANGED <<fn, arg, out, namesVars, matchVars, pdf_idx, successful, images,
                   image, page_num, all_text, empty_pages, returned>>

\* lines 93-96: the page joins the text or the empty pages
CountPage ==
    /\ fn = "process_all_pdfs"
    /\ pc = "third"
    /\ IF str_strip(page_text) # <<>>
       THEN /\ all_text' = Append(all_text, [page |-> page_num + 1, text |-> page_text])
            /\ tried' = Counted("text")
            /\ UNCHANGED empty_pages
       ELSE /\ empty_pages' = empty_pages + 1
            /\ tried' = Counted("empty")
            /\ UNCHANGED all_text
    /\ page_num' = page_num + 1
    /\ pc' = "page"
    /\ UNCHANGED <<fn, arg, out, namesVars, matchVars, pdf_idx, successful, images,
                   image, page_text, returned>>

\* lines 98-111 and 125-126: the text file is written when a page had text, and
\* the PDF is counted when process_single_pdf returns True
FinishPdf ==
    /\ fn = "process_all_pdfs"
    /\ pc = "page"
    /\ page_num >= images
    /\ IF all_text # <<>>
       THEN /\ out' = Append(out, [pdf |-> pdf_idx + 1, total_pages |-> images,
                                   pages_with_text |-> images - empty_pages,
                                   empty_pages |-> empty_pages, text |-> all_text])
            /\ returned' = Append(returned, "True")
            /\ successful' = successful + 1
       ELSE /\ returned' = Append(returned, "False")
            /\ UNCHANGED <<out, successful>>
    /\ pdf_idx' = pdf_idx + 1
    /\ pc' = "pdf"
    /\ UNCHANGED <<fn, arg, namesVars, matchVars, images, image, page_num, page_text,
                   all_text, empty_pages, tried>>

\* process_single_pdf is in progress: fitz.open, readtext or the writing of the
\* text file may raise
InSinglePdf ==
    \/ pc = "pdf" /\ pdf_idx < Len(arg.pdf_files)
    \/ pc \in {"page", "first", "second", "third"}

\* an exception of process_single_pdf that nothing catches
PdfRaisesUncaught ==
    /\ fn = "process_all_pdfs"
    /\ InSinglePdf
    /\ pc' = "raised"
    /\ UNCHANGED <<fn, arg, out, namesVars, matchVars, ocrVars>>

\* lines 127-128: an exception of process_single_pdf is caught and logged, and
\* the loop goes on
PdfRaises ==
    /\ fn = "process_all_pdfs"
    /\ InSinglePdf
    /\ returned' = Append(returned, "raised")
    /\ pdf_idx' = pdf_idx + 1
    /\ pc' = "pdf"
    /\ UNCHANGED <<fn, arg, out, namesVars, matchVars, successful, images, image,
                   page_num, page_text, all_text, empty_pages, tried>>

-----------------------------------------------------------------------------
(* Running process_all_pdfs over drawn folders: a PDF is its number of     *)
(* pages, and the image of a page is drawn when the page is read.          *)

MaxPdfs == 2
MaxPages == 2

InitOcr ==
    /\ fn = "process_all_pdfs"
    /\ arg \in [pdf_files : SeqsUpTo(0..MaxPages, MaxPdfs), preprocess_images : BOOLEAN]
    /\ out = <<>>
    /\ pc = "start"
    /\ NamesIdle /\ MatchIdle /\ OcrIdle

NextOcr ==
    \/ StartAllPdfs
    \/ NextPdf
    \/ OcrPage
    \/ RetryPreprocessed
    \/ RetryLowThreshold
    \/ CountPage
    \/ FinishPdf
    \/ PdfRaises

SpecOcr == InitOcr /\ [][NextOcr]_vars

\* C2: an exception raised while one PDF is processed is caught and every later
\* PDF is still processed; the final success count is the number of PDFs for
\* which process_single_pdf returned True, whatever failed for the others.
C2_FailuresContained ==
    /\ pc # "raised"
    /\ Len(returned) = pdf_idx
    /\ successful = Cardinality({k \in 1..Len(returned) : returned[k] = "True"})
    /\ pc = "done" /\ arg.pdf_files # <<>> => pdf_idx = Len(arg.pdf_files)

\* the run is over; the first PDF raised and the second returned True
C2_Witness ==
    /\ pc = "done"
    /\ Len(returned) = 2
    /\ returned[1] = "raised"
    /\ returned[2] = "True"
    /\ successful = 1

\* the calls of the three attempts, the first with the flag of the caller
ThreeAttempts ==
    << Attempt(arg.preprocess_images, DefaultThreshold),
       Attempt(TRUE, DefaultThreshold),
       Attempt(TRUE, LowThreshold) >>

\* the calls made when the flag is on: the retry with preprocessing is skipped
TwoAttempts ==
    << Attempt(TRUE, DefaultThreshold), Attempt(TRUE, LowThreshold) >>

\* every page read so far is counted once, and a PDF is finished only when all
\* of its pages are
PagesGoneThrough ==
    /\ fn = "process_all_pdfs" /\ pc \in {"page", "first", "second", "third"} =>
          /\ Len(all_text) + empty_pages = page_num
          /\ page_num <= images
          /\ \A k \in 1..page_num : tried[k].counted # "pending"
    /\ \A t \in 1..Len(out) :
          /\ out[t].pages_with_text + out[t].empty_pages = out[t].total_pages
          /\ out[t].total_pages = arg.pdf_files[out[t].pdf]

\* C8: for either value of the flag a page is counted empty only after the three
\* attempts (the flag of the caller, preprocessing forced on, threshold 0.1),
\* in this order, and an empty page never stops the later pages.
C8_EmptyAfterThreeAttempts ==
    /\ \A k \in 1..Len(tried) :
          tried[k].counted = "empty" => tried[k].attempts = ThreeAttempts
    /\ PagesGoneThrough

\* C8, amended: a page is counted empty after the three attempts when the flag
\* is off, and after two (the default call, then threshold 0.1) when it is on,
\* the retry with preprocessing forced on being made only when the flag is off;
\* an empty page never stops the later pages.
C8_EmptyAfterAllAttempts ==
    /\ \A k \in 1..Len(tried) :
          tried[k].counted = "empty" =>
              tried[k].attempts = IF arg.preprocess_images THEN TwoAttempts
                                  ELSE ThreeAttempts
    /\ PagesGoneThrough

\* with the flag on, the first page of a PDF was counted empty after two
\* attempts and its second page was read and had text
C8_Witness ==
    /\ arg.preprocess_images
    /\ Len(tried) = 2
    /\ tried[1].counted = "empty"
    /\ tried[1].attempts = TwoAttempts
    /\ tried[2].counted = "text"
    /\ Len(all_text) = 1

====
